---- MODULE Spec2Model ----
(***************************************************************************)
(* Model of pymetawear/client.py: the discover_devices helper and the      *)
(* MetaWearClient bridge between the board library (libmetawear) and the   *)
(* GATT transport (bluetooth.ble.GATTRequester).                           *)
(*                                                                         *)
(* Text is modelled as a sequence of one-character strings, so that        *)
(* split, lower and the substring test are computed character by           *)
(* character as Python computes them.  The scan tool's output is ASCII;    *)
(* on ASCII bytes out.decode('utf8') yields the same characters.           *)
(***************************************************************************)
EXTENDS Integers, Sequences, FiniteSets, TLC

VARIABLES
    \* ---- discover_devices ----
    out,            \* decoded stdout of the scan tool (sequence of characters)
    err,            \* stderr of the scan tool
    only_metawear,  \* the only_metawear argument
    dpc,            \* "off" | "call" | "done"
    dret,           \* the returned list
    draised         \* "none" or the exception that left the function

VARIABLES
    \* ---- MetaWearClient ----
    cstate,         \* "none" | "constructing" | "ready" | "failed"
    _requester,     \* self._requester: "None" or "GATTRequester"
    created,        \* number of GATTRequester objects constructed so far
    _initialized,   \* self._initialized
    attrs,          \* names of the further instance attributes that were set
    initCalled,     \* the board library has invoked initialized_fcn
    link,           \* the transport: "down" | "connecting" | "up"
    racc,           \* the requester property access in progress
    stack           \* call stack of __init__ and the bridge callbacks

VARIABLES
    \* ---- _sensor_data_handler ----
    data,           \* the fields of data.contents the handler reads
    native,         \* the native buffer data.contents.value points to
    atcall,         \* the buffer's contents when the handler ran
    spc,            \* "off" | "call" | "done"
    sret            \* what the handler returned or raised

dvars == <<out, err, only_metawear, dpc, dret, draised>>

cvars == <<cstate, _requester, created, _initialized, attrs, initCalled,
           link, racc, stack>>

svars == <<data, native, atcall, spc, sret>>

vars == <<out, err, only_metawear, dpc, dret, draised,
          cstate, _requester, created, _initialized, attrs, initCalled,
          link, racc, stack, data, native, atcall, spc, sret>>

(***************************************************************************)
(* Bounds                                                                  *)
(***************************************************************************)
MaxLines == 2       \* device lines the scan tool prints after its header
MaxDepth == 2       \* frames on the call stack (nesting of library callbacks)
MaxMatches == 2     \* characteristics one discovery returns

(***************************************************************************)
(* Text helpers                                                            *)
(***************************************************************************)
SP == " "
NL == "\n"

\* str.lower() on the ASCII letters
LowerChar(c) ==
    CASE c = "A" -> "a" [] c = "B" -> "b" [] c = "C" -> "c" [] c = "D" -> "d"
      [] c = "E" -> "e" [] c = "F" -> "f" [] c = "G" -> "g" [] c = "H" -> "h"
      [] c = "I" -> "i" [] c = "J" -> "j" [] c = "K" -> "k" [] c = "L" -> "l"
      [] c = "M" -> "m" [] c = "N" -> "n" [] c = "O" -> "o" [] c = "P" -> "p"
      [] c = "Q" -> "q" [] c = "R" -> "r" [] c = "S" -> "s" [] c = "T" -> "t"
      [] c = "U" -> "u" [] c = "V" -> "v" [] c = "W" -> "w" [] c = "X" -> "x"
      [] c = "Y" -> "y" [] c = "Z" -> "z" [] OTHER -> c

Lower(s) == [i \in 1..Len(s) |-> LowerChar(s[i])]

\* Python's `needle in hay` for strings
Contains(hay, needle) ==
    \E i \in 0..(Len(hay) - Len(needle)) :
        \A j \in 1..Len(needle) : hay[i + j] = needle[j]

\* index of the first occurrence of character c in s, or 0
RECURSIVE FirstIndex(_, _, _)
FirstIndex(s, c, i) ==
    IF i > Len(s) THEN 0
    ELSE IF s[i] = c THEN i
    ELSE FirstIndex(s, c, i + 1)

\* Python's s.split(sep) with a one-character separator: every occurrence
\* of sep cuts, so adjacent separators give empty pieces.
RECURSIVE Split(_, _)
Split(s, sep) ==
    LET i == FirstIndex(s, sep, 1)
    IN  IF i = 0 THEN <<s>>
        ELSE <<SubSeq(s, 1, i - 1)>> \o Split(SubSeq(s, i + 1, Len(s)), sep)

\* filter(None, pieces): drops the empty strings
FilterNonEmpty(pieces) == SelectSeq(pieces, LAMBDA x : x # <<>>)

RECURSIVE Join(_, _)
Join(lines, sep) ==
    IF lines = <<>> THEN <<>>
    ELSE Head(lines) \o <<sep>> \o Join(Tail(lines), sep)

Range(f) == {f[i] : i \in DOMAIN f}

\* all orderings of a finite set without repetition (list(set(...)) fixes no order)
Orderings(S) ==
    {f \in [1..Cardinality(S) -> S] : \A i, j \in 1..Cardinality(S) : f[i] = f[j] => i = j}

(***************************************************************************)
(* discover_devices                                                        *)
(***************************************************************************)
PermissionDenied == "Set scan parameters failed: Operation not permitted\n"
InputOutputError == "Set scan parameters failed: Input/output error\n"

METAWEAR == <<"m", "e", "t", "a", "w", "e", "a", "r">>

\* out.decode('utf8').split('\n')[1:] without its empty strings
DeviceLines(o) ==
    LET pieces == Split(o, NL)
    IN  FilterNonEmpty(SubSeq(pieces, 2, Len(pieces)))

\* [tuple(x.split(' ')) for x in ...]
ParsedTuples(o) ==
    LET ls == DeviceLines(o)
    IN  [i \in 1..Len(ls) |-> Split(ls[i], SP)]

\* set([...])
DeviceSet(o) == Range(ParsedTuples(o))

\* the lambda of the only_metawear filter; x[1] is the second element
NameMatches(x) == Contains(Lower(x[2]), METAWEAR)

\* variant: the test on the length of stdout is left out
StderrError_AnyStdout(o, e) ==
    IF e # ""
    THEN IF e = PermissionDenied THEN "MissingCapabilities"
         ELSE IF e = InputOutputError THEN "ScanFailed"
         ELSE "none"
    ELSE "none"

\* variant: any stderr output that comes with empty stdout is an error
StderrError_AnyStderr(o, e) ==
    IF Len(o) = 0 /\ e # ""
    THEN IF e = PermissionDenied THEN "MissingCapabilities" ELSE "ScanFailed"
    ELSE "none"

\* the exception discover_devices raises for (o, e), or "none"
StderrError(o, e) ==
    IF Len(o) = 0 /\ e # ""
    THEN IF e = PermissionDenied THEN "MissingCapabilities"
         ELSE IF e = InputOutputError THEN "ScanFailed"
         ELSE "none"
    ELSE "none"

\* the set of entries the call returns when nothing is raised
ReturnedSet(o, flag) ==
    IF flag THEN {x \in DeviceSet(o) : NameMatches(x)} ELSE DeviceSet(o)

\* the outcome of one call: the exception, if any, and the returned entries
DiscoverOutcome(o, e, flag) ==
    IF StderrError(o, e) # "none"
    THEN [raised |-> StderrError(o, e), entries |-> {}]
    ELSE IF flag /\ \E x \in DeviceSet(o) : Len(x) < 2
    THEN [raised |-> "IndexError", entries |-> {}]
    ELSE [raised |-> "none", entries |-> ReturnedSet(o, flag)]

\* ---- what the scan tool can print ----
Header == <<"L", "E", " ", "S", "c", "a", "n", " ", ".", ".", ".">>

\* hcitool prints one "address name" line per advertisement it sees
LinePool == {
    <<"A", "1", SP, "M", "e", "t", "a", "W", "e", "a", "r">>,
    <<"A", "2", SP, "M", "E", "T", "A", "W", "E", "A", "R">>,
    <<"A", "3", SP, "P", "o", "l", "a", "r">>,
    <<"A", "4", SP, "M", "y", SP, "M", "e", "t", "a", "W", "e", "a", "r">>,
    <<"A", "5", SP, "(", "u", "n", "k", "n", "o", "w", "n", ")">>,
    <<"A", "6", SP, "m", "e", "t", "a", "w", "e", "a">> }

ScanLines == UNION {[1..n -> LinePool] : n \in 0..MaxLines}

Stdouts == {<<>>} \cup {Header \o <<NL>> \o Join(ls, NL) : ls \in ScanLines}

Stderrs == {"", PermissionDenied, InputOutputError,
            "Set scan parameters failed: Operation not permitted",
            "Could not open device: No such device\n"}

DiscoverIdle ==
    /\ out = <<>> /\ err = "" /\ only_metawear = TRUE
    /\ dpc = "off" /\ dret = <<>> /\ draised = "none"

DiscoverInit ==
    /\ out \in Stdouts
    /\ err \in Stderrs
    /\ only_metawear \in BOOLEAN
    /\ dpc = "call"
    /\ dret = <<>>
    /\ draised = "none"

\* the call raises
DiscoverRaise ==
    /\ dpc = "call"
    /\ DiscoverOutcome(out, err, only_metawear).raised # "none"
    /\ draised' = DiscoverOutcome(out, err, only_metawear).raised
    /\ dpc' = "done"
    /\ UNCHANGED <<out, err, only_metawear, dret>>

\* the call returns its list
DiscoverReturn ==
    /\ dpc = "call"
    /\ DiscoverOutcome(out, err, only_metawear).raised = "none"
    /\ dret' \in Orderings(DiscoverOutcome(out, err, only_metawear).entries)
    /\ dpc' = "done"
    /\ UNCHANGED <<out, err, only_metawear, draised>>

discover_devices == DiscoverRaise \/ DiscoverReturn

DiscoverNext == discover_devices /\ UNCHANGED <<cvars, svars>>

(***************************************************************************)
(* MetaWearClient                                                          *)
(***************************************************************************)
\* t counts the `t += 0.1` additions of the wait loop.  In IEEE-754 double
\* arithmetic the sum of fifty additions of 0.1 is 4.999999999999998, which
\* is still below 5.0, and the fifty-first gives 5.099999999999998; `t < 5.0`
\* therefore holds exactly while fewer than 51 additions have been made.
TimeoutSteps == 51

BelowTimeout(t) == t < TimeoutSteps

\* ---- attribute names and private-name mangling ----
ClassName == <<"M", "e", "t", "a", "W", "e", "a", "r", "C", "l", "i", "e", "n", "t">>

InitializedAttr == <<"_", "i", "n", "i", "t", "i", "a", "l", "i", "z", "e", "d">>

\* the identifier written in _initialized_fcn: self.__initialized
InitializedFcnTarget == <<"_", "_", "i", "n", "i", "t", "i", "a", "l", "i", "z", "e", "d">>

\* Python rewrites an identifier of the form __name (not ending in two
\* underscores) inside a class body to _ClassName__name.
Mangle(name) ==
    IF /\ Len(name) > 2
       /\ name[1] = "_" /\ name[2] = "_"
       /\ ~(name[Len(name)] = "_" /\ name[Len(name) - 1] = "_")
    THEN <<"_">> \o ClassName \o name
    ELSE name

\* ---- the characteristics the board library passes to the bridge ----
\* A 128-bit UUID is given as two 64-bit halves; (high << 64) + low is
\* one-to-one on such pairs, so the UUID is modelled as the pair itself.
\* Small numbers stand for the 64-bit halves.
Uuid(high, low) == <<high, low>>

METAWEAR_SERVICE_NOTIFY_CHAR == <<Uuid(1, 1), Uuid(1, 6)>>

GattCharacteristics == {
    [service_uuid_high |-> 1, service_uuid_low |-> 1, uuid_high |-> 1, uuid_low |-> 6],
    [service_uuid_high |-> 1, service_uuid_low |-> 1, uuid_high |-> 1, uuid_low |-> 2],
    [service_uuid_high |-> 1, service_uuid_low |-> 3, uuid_high |-> 1, uuid_low |-> 6] }

NoCharacteristic ==
    [service_uuid_high |-> 0, service_uuid_low |-> 0, uuid_high |-> 0, uuid_low |-> 0]

_characteristic_2_uuids(characteristic) ==
    <<Uuid(characteristic.service_uuid_high, characteristic.service_uuid_low),
      Uuid(characteristic.uuid_high, characteristic.uuid_low)>>

\* variant: only the characteristic UUID is compared
IsNotifyChar_CharOnly(characteristic) ==
    _characteristic_2_uuids(characteristic)[2] = METAWEAR_SERVICE_NOTIFY_CHAR[2]

\* the test that guards the relay in _write_gatt_char
IsNotifyChar(characteristic) ==
    LET u == _characteristic_2_uuids(characteristic)
    IN  u[1] = METAWEAR_SERVICE_NOTIFY_CHAR[1] /\ u[2] = METAWEAR_SERVICE_NOTIFY_CHAR[2]

\* the command buffer of a write request and the lengths it is sent with
Command == <<7, 9>>
Lengths == {1, 2}

_command_to_str(command, length) == [i \in 1..length |-> command[i]]

\* value handles characteristic discovery can report
Handles == 11..(10 + MaxMatches)

\* results of discover_characteristics: lists of distinct value handles
DiscoverResults ==
    UNION {{q \in [1..n -> Handles] : \A i, j \in 1..n : q[i] = q[j] => i = j}
           : n \in 0..MaxMatches}

\* ---- frames ----
Frame(fn, pc, characteristic, length) ==
    [fn |-> fn, pc |-> pc, characteristic |-> characteristic, length |-> length,
     q |-> <<>>, trace |-> <<>>, obs |-> <<>>, wrote |-> <<>>, exc |-> "none"]

Top == stack[Len(stack)]

SetTop(f) == [stack EXCEPT ![Len(stack)] = f]

IdleAccess == [pc |-> "idle", t |-> 0, polls |-> 0, connects |-> 0, last |-> FALSE]

StartAccess == [IdleAccess EXCEPT !.pc = "start"]

\* positions at which a frame is inside a call into the board library
LibraryCallPcs == {"initialize", "char_read", "notify_char_changed"}

\* the board library may invoke a registered callback: from a call the
\* application makes on the constructed client's board, or from inside one
\* of the library calls the client itself makes
LibraryRunning ==
    \/ stack = <<>> /\ cstate = "ready"
    \/ stack # <<>> /\ Top.pc \in LibraryCallPcs

ClientIdle ==
    /\ cstate = "none"
    /\ _requester = "None"
    /\ created = 0
    /\ _initialized = FALSE
    /\ attrs = {}
    /\ initCalled = FALSE
    /\ link = "down"
    /\ racc = IdleAccess
    /\ stack = <<>>

ClientInit == ClientIdle

\* ---- __init__ ----
\* lines 100-113: the fields are set and mbl_mw_metawearboard_initialize is entered
__init__ ==
    /\ cstate = "none"
    /\ cstate' = "constructing"
    /\ _requester' = "None"
    /\ _initialized' = FALSE
    /\ stack' = <<Frame("__init__", "initialize", NoCharacteristic, 0)>>
    /\ UNCHANGED <<created, attrs, initCalled, link, racc>>

\* line 113 returns and line 115 evaluates self.requester
InitializeReturn ==
    /\ stack # <<>> /\ Top.fn = "__init__" /\ Top.pc = "initialize"
    /\ stack' = SetTop([Top EXCEPT !.pc = "requester"])
    /\ racc' = StartAccess
    /\ UNCHANGED <<cstate, _requester, created, _initialized, attrs, initCalled, link>>

\* line 115: discover_primary() on the transport the property returned
DiscoverPrimary ==
    /\ stack # <<>> /\ Top.fn = "__init__" /\ Top.pc = "requester"
    /\ racc.pc = "returned"
    /\ stack' = SetTop([Top EXCEPT !.pc = "returned",
                                   !.trace = Append(@, "discover_primary"),
                                   !.obs = Append(@, racc.last)])
    /\ racc' = IdleAccess
    /\ UNCHANGED <<cstate, _requester, created, _initialized, attrs, initCalled, link>>

\* ---- the requester property ----
\* variant: a new GATTRequester on every access
RequesterCreate_Always ==
    /\ racc.pc = "start"
    /\ _requester' = "GATTRequester"
    /\ created' = IF created < 2 THEN created + 1 ELSE created
    /\ racc' = [racc EXCEPT !.pc = "check"]
    /\ UNCHANGED <<cstate, _initialized, attrs, initCalled, link, stack>>

\* lines 131-134
RequesterCreate ==
    /\ racc.pc = "start"
    /\ IF _requester = "None"
       THEN /\ _requester' = "GATTRequester"
            /\ created' = IF created < 2 THEN created + 1 ELSE created
       ELSE UNCHANGED <<_requester, created>>
    /\ racc' = [racc EXCEPT !.pc = "check"]
    /\ UNCHANGED <<cstate, _initialized, attrs, initCalled, link, stack>>

\* line 136: the first is_connected(); line 149 when it is true
RequesterCheck ==
    /\ racc.pc = "check"
    /\ racc' = [racc EXCEPT !.pc = IF link = "up" THEN "returned" ELSE "connect",
                            !.polls = @ + 1,
                            !.last = (link = "up")]
    /\ UNCHANGED <<cstate, _requester, created, _initialized, attrs, initCalled, link, stack>>

\* lines 139-141: connect(wait=False) and t = 0.0
RequesterConnect ==
    /\ racc.pc = "connect"
    /\ link' = IF link = "down" THEN "connecting" ELSE link
    /\ racc' = [racc EXCEPT !.pc = "wait", !.t = 0,
                            !.connects = IF @ < 2 THEN @ + 1 ELSE @]
    /\ UNCHANGED <<cstate, _requester, created, _initialized, attrs, initCalled, stack>>

\* lines 142-144: one evaluation of the loop condition and, when it holds,
\* one pass through the body
RequesterWait ==
    /\ racc.pc = "wait"
    /\ IF link # "up" /\ BelowTimeout(racc.t)
       THEN racc' = [racc EXCEPT !.t = @ + 1, !.polls = @ + 1, !.last = FALSE]
       ELSE racc' = [racc EXCEPT !.pc = "final", !.polls = @ + 1,
                                 !.last = (link = "up")]
    /\ UNCHANGED <<cstate, _requester, created, _initialized, attrs, initCalled, link, stack>>

\* variant: the check after the loop is missing and the transport is returned
RequesterFinal_NoRaise ==
    /\ racc.pc = "final"
    /\ racc' = [racc EXCEPT !.pc = "returned", !.t = 0]
    /\ UNCHANGED <<cstate, _requester, created, _initialized, attrs, initCalled, link, stack>>

\* lines 146-149: the last is_connected(); raise on false, return on true
RequesterFinal ==
    /\ racc.pc = "final"
    /\ IF link # "up"
       THEN /\ racc' = [racc EXCEPT !.pc = "raised", !.t = 0, !.polls = @ + 1,
                                    !.last = FALSE]
            /\ stack' = SetTop([Top EXCEPT !.pc = "raised",
                                           !.exc = "PyMetaWearConnectionTimeout"])
       ELSE /\ racc' = [racc EXCEPT !.pc = "returned", !.t = 0, !.polls = @ + 1,
                                    !.last = TRUE]
            /\ UNCHANGED stack
    /\ UNCHANGED <<cstate, _requester, created, _initialized, attrs, initCalled, link>>

requester ==
    \/ RequesterCreate
    \/ RequesterCheck
    \/ RequesterConnect
    \/ RequesterWait
    \/ RequesterFinal

\* ---- _initialized_fcn ----
\* line 155 assigns True to the attribute the identifier names after mangling
_initialized_fcn ==
    /\ LibraryRunning
    /\ initCalled' = TRUE
    /\ IF Mangle(InitializedFcnTarget) = InitializedAttr
       THEN _initialized' = TRUE /\ UNCHANGED attrs
       ELSE attrs' = attrs \cup {Mangle(InitializedFcnTarget)} /\ UNCHANGED _initialized
    /\ UNCHANGED <<cstate, _requester, created, link, racc, stack>>

\* ---- _read_gatt_char ----
\* the board library calls read_gatt_char; lines 166-167 up to self.requester
ReadRequest ==
    /\ LibraryRunning
    /\ Len(stack) < MaxDepth
    /\ \E c \in GattCharacteristics :
          stack' = Append(stack, Frame("_read_gatt_char", "requester", c, 0))
    /\ racc' = StartAccess
    /\ UNCHANGED <<cstate, _requester, created, _initialized, attrs, initCalled, link>>

\* line 167 read_by_uuid, then lines 173-174 enter mbl_mw_connection_char_read
ReadByUuid ==
    /\ stack # <<>> /\ Top.fn = "_read_gatt_char" /\ Top.pc = "requester"
    /\ racc.pc = "returned"
    /\ stack' = SetTop([Top EXCEPT !.pc = "char_read",
                                   !.trace = @ \o <<"read_by_uuid", "char_read">>,
                                   !.obs = Append(@, racc.last)])
    /\ racc' = IdleAccess
    /\ UNCHANGED <<cstate, _requester, created, _initialized, attrs, initCalled, link>>

\* mbl_mw_connection_char_read returns and so does the callback
ReadReturn ==
    /\ stack # <<>> /\ Top.fn = "_read_gatt_char" /\ Top.pc = "char_read"
    /\ stack' = SetTop([Top EXCEPT !.pc = "returned"])
    /\ UNCHANGED <<cstate, _requester, created, _initialized, attrs, initCalled, link, racc>>

_read_gatt_char == ReadRequest \/ ReadByUuid \/ ReadReturn

\* ---- _write_gatt_char ----
\* the board library calls write_gatt_char; lines 186-188 up to self.requester
WriteRequest ==
    /\ LibraryRunning
    /\ Len(stack) < MaxDepth
    /\ \E c \in GattCharacteristics, n \in Lengths :
          stack' = Append(stack, Frame("_write_gatt_char", "requester1", c, n))
    /\ racc' = StartAccess
    /\ UNCHANGED <<cstate, _requester, created, _initialized, attrs, initCalled, link>>

\* variant: the first match is used however many there are
WriteDiscover_FirstMatch ==
    /\ stack # <<>> /\ Top.fn = "_write_gatt_char" /\ Top.pc = "requester1"
    /\ racc.pc = "returned"
    /\ \E q \in DiscoverResults :
          LET f == [Top EXCEPT !.q = q,
                               !.trace = Append(@, "discover_characteristics"),
                               !.obs = Append(@, racc.last)]
          IN  IF Len(q) = 0
              THEN /\ stack' = SetTop([f EXCEPT !.pc = "raised", !.exc = "IndexError"])
                   /\ racc' = IdleAccess
              ELSE /\ stack' = SetTop([f EXCEPT !.pc = "requester2"])
                   /\ racc' = StartAccess
    /\ UNCHANGED <<cstate, _requester, created, _initialized, attrs, initCalled, link>>

\* lines 188-194: discover_characteristics, the test on the number of
\* matches, q[0], and the next evaluation of self.requester
WriteDiscover ==
    /\ stack # <<>> /\ Top.fn = "_write_gatt_char" /\ Top.pc = "requester1"
    /\ racc.pc = "returned"
    /\ \E q \in DiscoverResults :
          LET f == [Top EXCEPT !.q = q,
                               !.trace = Append(@, "discover_characteristics"),
                               !.obs = Append(@, racc.last)]
          IN  IF Len(q) > 1
              THEN /\ stack' = SetTop([f EXCEPT !.pc = "raised", !.exc = "PyMetaWearException"])
                   /\ racc' = IdleAccess
              ELSE IF Len(q) = 0
              THEN /\ stack' = SetTop([f EXCEPT !.pc = "raised", !.exc = "IndexError"])
                   /\ racc' = IdleAccess
              ELSE /\ stack' = SetTop([f EXCEPT !.pc = "requester2"])
                   /\ racc' = StartAccess
    /\ UNCHANGED <<cstate, _requester, created, _initialized, attrs, initCalled, link>>

\* lines 195-199: write_by_handle, then the relay when the request is for
\* the notify characteristic
WriteByHandle ==
    /\ stack # <<>> /\ Top.fn = "_write_gatt_char" /\ Top.pc = "requester2"
    /\ racc.pc = "returned"
    /\ LET f == [Top EXCEPT !.wrote = Append(@, [handle |-> Top.q[1],
                                                 data |-> _command_to_str(Command, Top.length)]),
                            !.trace = Append(@, "write_by_handle"),
                            !.obs = Append(@, racc.last)]
       IN  IF IsNotifyChar(Top.characteristic)
           THEN stack' = SetTop([f EXCEPT !.pc = "notify_char_changed",
                                          !.trace = Append(@, "notify_char_changed")])
           ELSE stack' = SetTop([f EXCEPT !.pc = "returned"])
    /\ racc' = IdleAccess
    /\ UNCHANGED <<cstate, _requester, created, _initialized, attrs, initCalled, link>>

\* mbl_mw_connection_notify_char_changed returns and so does the callback
WriteReturn ==
    /\ stack # <<>> /\ Top.fn = "_write_gatt_char" /\ Top.pc = "notify_char_changed"
    /\ stack' = SetTop([Top EXCEPT !.pc = "returned"])
    /\ UNCHANGED <<cstate, _requester, created, _initialized, attrs, initCalled, link, racc>>

_write_gatt_char == WriteRequest \/ WriteDiscover \/ WriteByHandle \/ WriteReturn

\* ---- leaving a frame ----
\* A finished frame is removed.  An exception leaving a callback is reported
\* by ctypes and does not reach the library's caller; one leaving __init__
\* reaches the application, which gets no client.
Leave ==
    /\ stack # <<>> /\ Top.pc \in {"returned", "raised"}
    /\ stack' = SubSeq(stack, 1, Len(stack) - 1)
    /\ cstate' = IF Top.fn = "__init__"
                 THEN IF Top.pc = "returned" THEN "ready" ELSE "failed"
                 ELSE cstate
    /\ racc' = IdleAccess
    /\ UNCHANGED <<_requester, created, _initialized, attrs, initCalled, link>>

\* ---- the transport ----
\* a connection attempt completes
LinkUp ==
    /\ link = "connecting"
    /\ link' = "up"
    /\ UNCHANGED <<cstate, _requester, created, _initialized, attrs, initCalled, racc, stack>>

\* a connection attempt fails or an established connection is lost
LinkDown ==
    /\ link \in {"connecting", "up"}
    /\ link' = "down"
    /\ UNCHANGED <<cstate, _requester, created, _initialized, attrs, initCalled, racc, stack>>

Transport == LinkUp \/ LinkDown

Program ==
    \/ __init__ \/ InitializeReturn \/ DiscoverPrimary
    \/ requester
    \/ _initialized_fcn
    \/ _read_gatt_char
    \/ _write_gatt_char
    \/ Leave

(***************************************************************************)
(* _sensor_data_handler                                                    *)
(***************************************************************************)
\* the type tags the handler compares with, each standing for its own value
DataTypeId ==
    [UINT32 |-> "UINT32", FLOAT |-> "FLOAT", CARTESIAN_FLOAT |-> "CARTESIAN_FLOAT",
     BATTERY_STATE |-> "BATTERY_STATE", BYTE_ARRAY |-> "BYTE_ARRAY",
     TCS34725_ADC |-> "TCS34725_ADC"]

\* tags the library can report: the six above and two the handler does not list
TypeIds ==
    {"UINT32", "FLOAT", "CARTESIAN_FLOAT", "BATTERY_STATE", "BYTE_ARRAY",
     "TCS34725_ADC", "INT32", "UNKNOWN"}

\* little-endian unsigned integer held in bytes b[from .. from + n - 1]
RECURSIVE LittleEndian(_, _, _)
LittleEndian(b, from, n) ==
    IF n = 0 THEN 0 ELSE b[from] + 256 * LittleEndian(b, from + 1, n - 1)

\* the values cast(..., POINTER(layout)).contents exposes
c_uint(b) == LittleEndian(b, 1, 4)

\* a 32-bit float is kept as its bit pattern
c_float(b, from) == [float_bits |-> LittleEndian(b, from, 4)]

CartesianFloat(b) == [x |-> c_float(b, 1), y |-> c_float(b, 5), z |-> c_float(b, 9)]

BatteryState(b) == [voltage |-> LittleEndian(b, 1, 2), charge |-> b[3]]

Tcs34725ColorAdc(b) ==
    [clear |-> LittleEndian(b, 1, 2), red |-> LittleEndian(b, 3, 2),
     green |-> LittleEndian(b, 5, 2), blue |-> LittleEndian(b, 7, 2)]

ByteArray(b, length) == [i \in 1..length |-> b[i]]

\* what a layout reads from the buffer b
Decode(layout, b, length) ==
    CASE layout = "c_uint" -> c_uint(b)
      [] layout = "c_float" -> c_float(b, 1)
      [] layout = "CartesianFloat" -> CartesianFloat(b)
      [] layout = "BatteryState" -> BatteryState(b)
      [] layout = "c_ubyte_array" -> ByteArray(b, length)
      [] layout = "Tcs34725ColorAdc" -> Tcs34725ColorAdc(b)

\* a value that owns its contents, and one that still reads native memory
Copied(layout, b, length) ==
    [raised |-> "none", layout |-> layout, view |-> FALSE, value |-> Decode(layout, b, length)]

View(layout) == [raised |-> "none", layout |-> layout, view |-> TRUE, value |-> 0]

Raised(exc) == [raised |-> exc, layout |-> "none", view |-> FALSE, value |-> 0]

\* variant: the battery state is returned without copy.deepcopy
SensorDataValue_NoCopy(type_id, b, length) ==
    IF type_id = DataTypeId.UINT32 THEN Copied("c_uint", b, length)
    ELSE IF type_id = DataTypeId.FLOAT THEN Copied("c_float", b, length)
    ELSE IF type_id = DataTypeId.CARTESIAN_FLOAT THEN Copied("CartesianFloat", b, length)
    ELSE IF type_id = DataTypeId.BATTERY_STATE THEN View("BatteryState")
    ELSE IF type_id = DataTypeId.BYTE_ARRAY THEN Copied("c_ubyte_array", b, length)
    ELSE IF type_id = DataTypeId.TCS34725_ADC THEN Copied("Tcs34725ColorAdc", b, length)
    ELSE Raised("RuntimeError")

\* lines 205-228: the if/elif chain; .contents.value of a scalar, deepcopy
\* of a structure and the list built element by element are all copies
SensorDataValue(type_id, b, length) ==
    IF type_id = DataTypeId.UINT32 THEN Copied("c_uint", b, length)
    ELSE IF type_id = DataTypeId.FLOAT THEN Copied("c_float", b, length)
    ELSE IF type_id = DataTypeId.CARTESIAN_FLOAT THEN Copied("CartesianFloat", b, length)
    ELSE IF type_id = DataTypeId.BATTERY_STATE THEN Copied("BatteryState", b, length)
    ELSE IF type_id = DataTypeId.BYTE_ARRAY THEN Copied("c_ubyte_array", b, length)
    ELSE IF type_id = DataTypeId.TCS34725_ADC THEN Copied("Tcs34725ColorAdc", b, length)
    ELSE Raised("RuntimeError")

\* what the consumer reads from a returned value
Observed(v, b, length) == IF v.view THEN Decode(v.layout, b, length) ELSE v.value

\* contents of the native buffer (twelve bytes, the largest layout)
NativeBuffers == {
    <<1, 0, 0, 0, 2, 0, 0, 0, 0, 1, 0, 0>>,
    <<0, 2, 1, 0, 0, 0, 1, 2, 2, 2, 0, 1>>,
    <<2, 2, 2, 2, 1, 1, 1, 1, 0, 0, 0, 0>> }

\* lengths the library reports with the data
DataLengths == {0, 1, 4, 12}

NoData == [type_id |-> "UINT32", length |-> 0]

SensorIdle ==
    /\ data = NoData
    /\ native = <<>>
    /\ atcall = <<>>
    /\ spc = "off"
    /\ sret = Raised("none")

SensorInit ==
    /\ data \in [type_id : TypeIds, length : DataLengths]
    /\ native \in NativeBuffers
    /\ atcall = <<>>
    /\ spc = "call"
    /\ sret = Raised("none")

\* the board library delivers data to the handler
_sensor_data_handler ==
    /\ spc = "call"
    /\ sret' = SensorDataValue(data.type_id, native, data.length)
    /\ atcall' = native
    /\ spc' = "done"
    /\ UNCHANGED <<data, native>>

\* after the callback the library refills its buffer
NativeReuse ==
    /\ spc = "done"
    /\ \E b \in NativeBuffers : b # native /\ native' = b
    /\ UNCHANGED <<data, atcall, spc, sret>>

SensorNext == (_sensor_data_handler \/ NativeReuse) /\ UNCHANGED <<dvars, cvars>>

SensorSpecInit == SensorInit /\ DiscoverIdle /\ ClientIdle

SensorSpec == SensorSpecInit /\ [][SensorNext]_vars

(***************************************************************************)
(* Specifications                                                          *)
(***************************************************************************)
Init == ClientInit /\ DiscoverIdle /\ SensorIdle

Next == (Program \/ Transport) /\ UNCHANGED <<dvars, svars>>

Spec == Init /\ [][Next]_vars

\* the interpreter keeps executing the running code
FairSpec == Spec /\ WF_vars(Program /\ UNCHANGED <<dvars, svars>>)

DiscoverSpecInit == DiscoverInit /\ ClientIdle /\ SensorIdle

DiscoverSpec == DiscoverSpecInit /\ [][DiscoverNext]_vars

(***************************************************************************)
(* Properties                                                              *)
(***************************************************************************)
Frames == {stack[i] : i \in DOMAIN stack}

WriteFrames == {f \in Frames : f.fn = "_write_gatt_char"}

IsPrefix(s, t) == Len(s) <= Len(t) /\ \A i \in 1..Len(s) : s[i] = t[i]

AccessActive == racc.pc \in {"start", "check", "connect", "wait", "final"}

AccessOver == racc.pc \in {"returned", "raised"}

\* the address and the name hcitool printed on a line "address name"
LineAddress(l) == SubSeq(l, 1, FirstIndex(l, SP, 1) - 1)

LineName(l) == SubSeq(l, FirstIndex(l, SP, 1) + 1, Len(l))

ScannedLines == Range(DeviceLines(out))

Returned == dpc = "done" /\ draised = "none"

\* C1: every access to the requester property ends, after at most
\* TimeoutSteps + 3 is_connected() polls and at most one connect(); it ends
\* either by returning, and then the last is_connected() was true, or by
\* raising PyMetaWearConnectionTimeout, and then the last one was false.
C1_RequesterTerminates ==
    /\ [](/\ racc.polls <= TimeoutSteps + 3
          /\ racc.connects <= 1
          /\ (racc.pc = "returned" => racc.last = TRUE)
          /\ (racc.pc = "raised" =>
                /\ racc.last = FALSE
                /\ Top.pc = "raised"
                /\ Top.exc = "PyMetaWearConnectionTimeout"))
    /\ (AccessActive ~> AccessOver)

\* an access that connected, waited out the whole loop and still returned
\* because the link came up just before the last check
C1_Witness ==
    racc.pc = "returned" /\ racc.connects = 1 /\ racc.polls = TimeoutSteps + 3

\* C2 as stated: permission-denied stderr always raises "missing
\* capabilities", whatever stdout holds.
C2_Original ==
    (dpc = "done" /\ err = PermissionDenied) => draised = "MissingCapabilities"

\* C2 amended: with permission-denied stderr the call raises "missing
\* capabilities" exactly when stdout is empty, for either value of
\* only_metawear; with non-empty stdout it raises nothing for stderr.
C2_PermissionDenied ==
    (dpc = "done" /\ err = PermissionDenied) =>
        /\ (out = <<>> => draised = "MissingCapabilities")
        /\ (out # <<>> => draised \notin {"MissingCapabilities", "ScanFailed"})

C2_Witness ==
    /\ dpc = "done" /\ err = PermissionDenied /\ out = <<>>
    /\ only_metawear = FALSE /\ draised = "MissingCapabilities"

\* C3 as stated: with only_metawear the returned entries are exactly the
\* scanned devices whose name contains "metawear" in some letter case
\* (checked on the calls whose stderr is empty).
C3_FilterByName ==
    (Returned /\ only_metawear /\ err = "") =>
        /\ \A i \in DOMAIN dret : Contains(Lower(dret[i][2]), METAWEAR)
        /\ \A l \in ScannedLines :
              Contains(Lower(LineName(l)), METAWEAR)
                  <=> \E i \in DOMAIN dret : dret[i][1] = LineAddress(l)

\* C4 as stated: without only_metawear the call returns one 2-element
\* (address, name) tuple per distinct non-empty line after the header,
\* without duplicates, and the empty list when nothing was scanned
\* (checked on the calls whose stderr is empty).
C4_AddressNamePairs ==
    (Returned /\ ~only_metawear /\ err = "") =>
        /\ \A i \in DOMAIN dret : Len(dret[i]) = 2
        /\ \A i, j \in DOMAIN dret : dret[i] = dret[j] => i = j
        /\ Range(dret) = {<<LineAddress(l), LineName(l)>> : l \in ScannedLines}
        /\ Len(dret) = Cardinality(ScannedLines)
        /\ (out = <<>> => dret = <<>>)

\* C5: stderr other than the two recognized messages does not influence the
\* call: its outcome is the outcome of the same call with empty stderr.
C5_OtherStderrIgnored ==
    (dpc = "done" /\ err \notin {PermissionDenied, InputOutputError}) =>
        /\ draised = DiscoverOutcome(out, "", only_metawear).raised
        /\ draised \notin {"MissingCapabilities", "ScanFailed"}
        /\ Range(dret) = DiscoverOutcome(out, "", only_metawear).entries
        /\ Len(dret) = Cardinality(Range(dret))

C5_Witness ==
    /\ dpc = "done" /\ out = <<>> /\ draised = "none" /\ dret = <<>>
    /\ err = "Set scan parameters failed: Operation not permitted"

\* C6: a write request whose discovery found more than one characteristic
\* raises PyMetaWearException, writes nothing and relays nothing; a write
\* reaches the transport only after a discovery with exactly one match, and
\* goes to that match's value handle.
C6_WriteNeedsUniqueMatch ==
    \A f \in WriteFrames :
        /\ Len(f.q) > 1 =>
              /\ f.pc = "raised" /\ f.exc = "PyMetaWearException"
              /\ f.wrote = <<>>
              /\ f.trace = <<"discover_characteristics">>
        /\ f.wrote # <<>> =>
              /\ Len(f.q) = 1
              /\ Len(f.wrote) = 1
              /\ f.wrote[1].handle = f.q[1]
        /\ (\E i \in DOMAIN f.trace : f.trace[i] = "write_by_handle") <=> f.wrote # <<>>

C6_Witness ==
    \E f \in WriteFrames : Len(f.q) = 2 /\ f.exc = "PyMetaWearException"

\* C7: a write request discovers, then writes, then relays, in that order;
\* once the write is done the response is relayed exactly once if both the
\* service and the characteristic UUID are those of the notify
\* characteristic, and not at all otherwise; nothing is relayed before the
\* write.
C7_RelayOnlyNotifyChar ==
    \A f \in WriteFrames :
        LET relays == {i \in DOMAIN f.trace : f.trace[i] = "notify_char_changed"}
            isNotify ==
                /\ Uuid(f.characteristic.service_uuid_high, f.characteristic.service_uuid_low)
                       = METAWEAR_SERVICE_NOTIFY_CHAR[1]
                /\ Uuid(f.characteristic.uuid_high, f.characteristic.uuid_low)
                       = METAWEAR_SERVICE_NOTIFY_CHAR[2]
        IN  /\ IsPrefix(f.trace, <<"discover_characteristics", "write_by_handle",
                                   "notify_char_changed">>)
            /\ relays # {} => f.wrote # <<>>
            /\ f.wrote # <<>> => (Cardinality(relays) = 1 <=> isNotify)
            /\ ~isNotify => relays = {}

C7_Witness ==
    \E f \in WriteFrames :
        /\ f.pc = "returned"
        /\ f.trace = <<"discover_characteristics", "write_by_handle", "notify_char_changed">>

\* C8: the handler's outcome follows from the type tag: each of the six
\* recognized tags yields the value its layout reads from the buffer as it
\* was at the call (whatever happens to the buffer afterwards), a byte array
\* has the reported length, and any other tag raises RuntimeError.
C8_DecodeByTypeTag ==
    spc = "done" =>
        LET tag == data.type_id
            layout ==
                CASE tag = "UINT32" -> "c_uint"
                  [] tag = "FLOAT" -> "c_float"
                  [] tag = "CARTESIAN_FLOAT" -> "CartesianFloat"
                  [] tag = "BATTERY_STATE" -> "BatteryState"
                  [] tag = "BYTE_ARRAY" -> "c_ubyte_array"
                  [] tag = "TCS34725_ADC" -> "Tcs34725ColorAdc"
                  [] OTHER -> "none"
        IN  IF layout = "none"
            THEN sret = Raised("RuntimeError")
            ELSE /\ sret.raised = "none"
                 /\ sret.layout = layout
                 /\ Observed(sret, native, data.length) = Decode(layout, atcall, data.length)
                 /\ (layout = "c_ubyte_array" =>
                        Len(Observed(sret, native, data.length)) = data.length)

\* a battery state was returned and the library has since refilled its buffer
C8_Witness ==
    /\ spc = "done" /\ data.type_id = "BATTERY_STATE" /\ native # atcall
    /\ sret.value = [voltage |-> 512, charge |-> 1]

\* C9: every GATT operation was issued right after a requester access whose
\* last is_connected() was true; an access that saw the transport
\* disconnected returns only after a connect(); and at most one
\* GATTRequester is ever created, which stays in self._requester.
C9_ConnectedBeforeUse ==
    /\ \A f \in Frames : \A i \in DOMAIN f.obs : f.obs[i] = TRUE
    /\ \A f \in Frames :
          Len(f.obs) = Cardinality({i \in DOMAIN f.trace :
              f.trace[i] \in {"discover_primary", "read_by_uuid",
                              "discover_characteristics", "write_by_handle"}})
    /\ (racc.pc = "returned" /\ racc.polls > 1 => racc.connects = 1)
    /\ (racc.pc = "returned" => racc.last = TRUE)
    /\ created <= 1
    /\ (created = 1 <=> _requester = "GATTRequester")
    /\ (racc.pc \notin {"idle", "start"} => _requester = "GATTRequester")

\* a write request of a constructed client has issued both of its GATT
\* operations on the transport created by the constructor
C9_Witness ==
    /\ cstate = "ready" /\ created = 1
    /\ \E f \in WriteFrames : f.obs = <<TRUE, TRUE>>

\* C10 as stated: once the library has invoked _initialized_fcn,
\* _initialized is True.
C10_InitializedSet == initCalled => _initialized = TRUE

====
